---- MODULE Spec2Model ----
\* Model of the stream adaptation layer of worker (src/worker/src/streams.rs)
\* and of the Error taxonomy (src/worker/src/error.rs).
EXTENDS Integers, Sequences, FiniteSets, TLC

\* ---------------------------------------------------------------------------
\* Bounds
MaxLen == 4
MaxChunkLen == 2
MaxItems == 3
MaxPulls == MaxItems + 2

Bytes == {0, 1}

RECURSIVE SeqsUpTo(_, _)
SeqsUpTo(S, n) == IF n = 0 THEN {<<>>}
                  ELSE SeqsUpTo(S, n - 1) \cup
                       {s \o <<x>> : s \in SeqsUpTo(S, n - 1), x \in S}

Chunks == SeqsUpTo(Bytes, MaxChunkLen)

\* ---------------------------------------------------------------------------
\* Error values (enum Error)
\* an Error value: its variant, its message context and its numeric context
ErrorOf(k, m, c) == [kind |-> k, msg |-> m, code |-> c]
JsError(m) == ErrorOf("JsError", m, 0)
RustError(m) == ErrorOf("RustError", m, 0)

\* the grave accent of the BindingError template (not a TLA+ string character)
GraveAccent == "'"

\* #[error("...")] templates of enum Error (Display / to_string)
\* a template variant that drops the status of Json
DisplayNoStatus(e) ==
    CASE e.kind = "BadEncoding" -> "content-type mismatch"
      [] e.kind = "BodyUsed" -> "body has already been read"
      [] e.kind = "Json" -> e.msg
      [] e.kind = "JsError" -> "Javascript error: " \o e.msg
      [] e.kind = "BindingError" -> "no binding found for " \o GraveAccent \o e.msg \o GraveAccent
      [] e.kind = "RouteNoDataError" -> "route has no corresponding shared data"
      [] e.kind = "InvalidStatusCode" -> "invalid status code: " \o ToString(e.code)
      [] e.kind = "RouteInsertError" -> "failed to insert route: " \o e.msg
      [] e.kind = "RustError" -> "Serde Error: " \o e.msg
      [] e.kind = "SerdeJsonError" -> "Serde Error: " \o e.msg
      [] e.kind = "SerdeWasmBindgenError" -> "Serde WASM bindgen Error: " \o e.msg
      [] e.kind = "KvError" -> "Kv Error: " \o e.msg
      [] e.kind = "UrlParseError" -> "url parse error: " \o e.msg

Display(e) ==
    CASE e.kind = "BadEncoding" -> "content-type mismatch"
      [] e.kind = "BodyUsed" -> "body has already been read"
      [] e.kind = "Json" -> e.msg \o " (status: " \o ToString(e.code) \o ")"
      [] e.kind = "JsError" -> "Javascript error: " \o e.msg
      [] e.kind = "BindingError" -> "no binding found for " \o GraveAccent \o e.msg \o GraveAccent
      [] e.kind = "RouteNoDataError" -> "route has no corresponding shared data"
      [] e.kind = "InvalidStatusCode" -> "invalid status code: " \o ToString(e.code)
      [] e.kind = "RouteInsertError" -> "failed to insert route: " \o e.msg
      [] e.kind = "RustError" -> "Serde Error: " \o e.msg
      [] e.kind = "SerdeJsonError" -> "Serde Error: " \o e.msg
      [] e.kind = "SerdeWasmBindgenError" -> "Serde WASM bindgen Error: " \o e.msg
      [] e.kind = "KvError" -> "Kv Error: " \o e.msg
      [] e.kind = "UrlParseError" -> "url parse error: " \o e.msg

\* From<JsValue> for Error: Error::JsError(String(value)); a host value is
\* represented by its String() rendering.
ErrorFromJsValue(v) == JsError(v)

\* format!("fixed length stream had different length than expected (expected {}, got {})")
MismatchMsg(len, got) ==
    "fixed length stream had different length than expected (expected "
      \o ToString(len) \o ", got " \o ToString(got) \o ")"

\* Items of an inner Stream<Item = Result<Vec<u8>, Error>>
OkItem(c) == [tag |-> "Ok", chunk |-> c]
ErrItem(e) == [tag |-> "Err", err |-> e]
NoneItem == [tag |-> "None"]
\* a trap of the wasm instance inside a host call (no value is returned)
TrapItem == [tag |-> "Trap"]

InnerErrors == {JsError("inner failure")}
InnerItems == {OkItem(c) : c \in Chunks} \cup {ErrItem(e) : e \in InnerErrors}

\* Variants of poll_next used as mutants of the claims below.
PollNextGe(len, br, item) ==
    IF item.tag = "Err" THEN [br |-> br, out |-> item]
    ELSE IF item.tag = "Ok" THEN
        LET nbr == br + Len(item.chunk) IN
        IF nbr >= len THEN [br |-> nbr, out |-> ErrItem(RustError(MismatchMsg(len, nbr)))]
        ELSE [br |-> nbr, out |-> item]
    ELSE IF br # len THEN [br |-> br, out |-> ErrItem(RustError(MismatchMsg(len, br)))]
    ELSE [br |-> br, out |-> NoneItem]

PollNextOldCount(len, br, item) ==
    IF item.tag = "Err" THEN [br |-> br, out |-> item]
    ELSE IF item.tag = "Ok" THEN
        LET nbr == br + Len(item.chunk) IN
        IF nbr > len THEN [br |-> nbr, out |-> ErrItem(RustError(MismatchMsg(len, br)))]
        ELSE [br |-> nbr, out |-> item]
    ELSE IF br # len THEN [br |-> br, out |-> ErrItem(RustError(MismatchMsg(len, br)))]
    ELSE [br |-> br, out |-> NoneItem]

PollNextNoEndCheck(len, br, item) ==
    IF item.tag = "Err" THEN [br |-> br, out |-> item]
    ELSE IF item.tag = "Ok" THEN
        LET nbr == br + Len(item.chunk) IN
        IF nbr > len THEN [br |-> nbr, out |-> ErrItem(RustError(MismatchMsg(len, nbr)))]
        ELSE [br |-> nbr, out |-> item]
    ELSE [br |-> br, out |-> NoneItem]

PollNextWrapErr(len, br, item) ==
    IF item.tag = "Err" THEN [br |-> br, out |-> ErrItem(RustError(item.err.msg))]
    ELSE IF item.tag = "Ok" THEN
        LET nbr == br + Len(item.chunk) IN
        IF nbr > len THEN [br |-> nbr, out |-> ErrItem(RustError(MismatchMsg(len, nbr)))]
        ELSE [br |-> nbr, out |-> item]
    ELSE IF br # len THEN [br |-> br, out |-> ErrItem(RustError(MismatchMsg(len, br)))]
    ELSE [br |-> br, out |-> NoneItem]

PollNextNoCountOnOverflow(len, br, item) ==
    IF item.tag = "Err" THEN [br |-> br, out |-> item]
    ELSE IF item.tag = "Ok" THEN
        LET nbr == br + Len(item.chunk) IN
        IF nbr > len THEN [br |-> br, out |-> ErrItem(RustError(MismatchMsg(len, nbr)))]
        ELSE [br |-> nbr, out |-> item]
    ELSE IF br # len THEN [br |-> br, out |-> ErrItem(RustError(MismatchMsg(len, br)))]
    ELSE [br |-> br, out |-> NoneItem]

\* ---------------------------------------------------------------------------
\* FixedLengthStream::poll_next, for one item polled from inner
\* (an Ok/Err item or end-of-sequence); returns the new bytes_read and the
\* value returned to the caller.
PollNext(len, br, item) ==
    IF item.tag = "Err" THEN [br |-> br, out |-> item]
    ELSE IF item.tag = "Ok" THEN
        LET nbr == br + Len(item.chunk) IN
        IF nbr > len THEN [br |-> nbr, out |-> ErrItem(RustError(MismatchMsg(len, nbr)))]
        ELSE [br |-> nbr, out |-> item]
    ELSE IF br # len THEN [br |-> br, out |-> ErrItem(RustError(MismatchMsg(len, br)))]
    ELSE [br |-> br, out |-> NoneItem]

VARIABLES length, bytes_read, inner, initInner, received, out,
          host, hostInit, bsRecv, bsOut, bsState,
          convLen, ctor,
          rtLen, rtInit, rtInner, rtBr, pipeState, readable, rtRead, rtFlsErr,
          errVal, rendered, jsRendered, renderDone

flsVars == <<length, bytes_read, inner, initInner, received, out>>
bsVars == <<host, hostInit, bsRecv, bsOut, bsState>>
convVars == <<convLen, ctor>>
rtVars == <<rtLen, rtInit, rtInner, rtBr, pipeState, readable, rtRead, rtFlsErr>>
errVars == <<errVal, rendered, jsRendered, renderDone>>
vars == <<flsVars, bsVars, convVars, rtVars, errVars>>

\* FixedLengthStream::wrap(stream, length)
Wrap == /\ length \in 0..MaxLen
        /\ bytes_read = 0
        /\ initInner \in SeqsUpTo(InnerItems, MaxItems)
        /\ inner = initInner
        /\ received = <<>>
        /\ out = <<>>

\* One call of poll_next; an exhausted inner keeps answering None.
FlsPoll ==
    /\ Len(out) < MaxPulls
    /\ LET item == IF inner = <<>> THEN NoneItem ELSE Head(inner)
           r == PollNext(length, bytes_read, item)
       IN /\ bytes_read' = r.br
          /\ out' = Append(out, r.out)
          /\ inner' = IF inner = <<>> THEN <<>> ELSE Tail(inner)
          /\ received' = IF inner = <<>> THEN received ELSE Append(received, item)
    /\ UNCHANGED <<length, initInner>>
    /\ UNCHANGED <<bsVars, convVars, rtVars, errVars>>

BsIdle == /\ host = <<>> /\ hostInit = <<>> /\ bsRecv = <<>>
          /\ bsOut = <<>> /\ bsState = "reading"
ConvIdle == /\ convLen = <<0, 0, 0, 0>> /\ ctor = "none"
RtIdle == /\ rtLen = 0 /\ rtInit = <<>> /\ rtInner = <<>> /\ rtBr = 0
          /\ pipeState = "idle" /\ readable = <<>> /\ rtRead = <<>> /\ rtFlsErr = "none"
ErrIdle == /\ errVal = ErrorOf("BadEncoding", "", 0) /\ rendered = ""
           /\ jsRendered = "" /\ renderDone = FALSE
OthersIdle == ConvIdle /\ RtIdle /\ ErrIdle

Init == Wrap /\ BsIdle /\ OthersIdle
Next == FlsPoll
Spec == Init /\ [][Next]_vars

\* ---------------------------------------------------------------------------
\* ByteStream over a host ReadableStream (IntoStream<'static>).
\* A host read yields Ok(value), Err(value) or end; a value is a Uint8Array
\* with its bytes or another host value (here a Number).
MaxHostItems == 3
HostBytes(d) == [tag |-> "Ok", val |-> [kind |-> "Uint8Array", data |-> d]]
HostOther == [tag |-> "Ok", val |-> [kind |-> "Number", data |-> <<>>]]
HostErr(v) == [tag |-> "Err", val |-> v]
HostEnd == [tag |-> "End"]
AbortedMsg == "Error: aborted"
HostErrorValues == {AbortedMsg, "TypeError: boom"}
HostItems == {HostBytes(d) : d \in Chunks} \cup {HostOther}
               \cup {HostErr(v) : v \in HostErrorValues}

\* Uint8Array::from(value) is an unchecked cast; to_vec() then reads the
\* value's length and copies it.  On a value that is not a Uint8Array the
\* build either copies what the array-like view gives (nothing, for a Number)
\* or traps in the host call.
ToVecOutcomes(val) ==
    IF val.kind = "Uint8Array" THEN {OkItem(val.data)}
    ELSE {OkItem(<<>>), TrapItem}

\* ByteStream::poll_next for one host read r; returns a set of outcomes.
BsPollOutcomes(r) ==
    IF r.tag = "End" THEN {NoneItem}
    ELSE IF r.tag = "Ok" THEN ToVecOutcomes(r.val)
    ELSE LET e == ErrorFromJsValue(r.val) IN
         IF Display(e) = AbortedMsg THEN {NoneItem} ELSE {ErrItem(e)}

\* ByteStream::new(inner)
BsNew == /\ hostInit \in SeqsUpTo(HostItems, MaxHostItems)
         /\ host = hostInit
         /\ bsRecv = <<>>
         /\ bsOut = <<>>
         /\ bsState = "reading"

FlsIdle == /\ length = 0 /\ bytes_read = 0 /\ inner = <<>> /\ initInner = <<>>
           /\ received = <<>> /\ out = <<>>

\* One call of ByteStream::poll_next.  After the host stream has ended or
\* errored, the reader is released and further reads report end.
BsPoll ==
    /\ bsState = "reading"
    /\ Len(bsOut) < MaxHostItems + 1
    /\ LET r == IF host = <<>> THEN HostEnd ELSE Head(host) IN
       /\ host' = IF host = <<>> \/ Head(host).tag = "Err" THEN <<>> ELSE Tail(host)
       /\ bsRecv' = Append(bsRecv, r)
       /\ \E o \in BsPollOutcomes(r) :
            IF o = TrapItem THEN /\ bsState' = "trapped" /\ bsOut' = bsOut
            ELSE /\ bsOut' = Append(bsOut, o) /\ bsState' = "reading"
    /\ UNCHANGED <<hostInit>>
    /\ UNCHANGED <<flsVars, convVars, rtVars, errVars>>

BsInit == FlsIdle /\ BsNew /\ OthersIdle
BsNext == BsPoll
BsSpec == BsInit /\ [][BsNext]_vars

\* C5: when the host raises the "Error: aborted" error, that pull of
\* ByteStream::poll_next returns end-of-sequence, and no error is yielded.
C5_AbortIsEnd ==
    \A i \in 1..Len(bsOut) :
      /\ bsRecv[i] = HostErr(AbortedMsg) => bsOut[i] = NoneItem
      /\ (\E j \in 1..i : bsRecv[j] = HostErr(AbortedMsg)) => bsOut[i].tag # "Err"

\* C6: a host error other than the aborted one yields Err(JsError(message));
\* Uint8Array values yield their bytes in order; a value that is not a byte
\* array yields a JsError; at most one error is yielded.
C6_HostErrors ==
    /\ bsState # "trapped"
    /\ \A i \in 1..Len(bsOut) :
         /\ (bsRecv[i].tag = "Err" /\ bsRecv[i].val # AbortedMsg)
              => bsOut[i] = ErrItem(JsError(bsRecv[i].val))
         /\ (bsRecv[i].tag = "Ok" /\ bsRecv[i].val.kind = "Uint8Array")
              => bsOut[i] = OkItem(bsRecv[i].val.data)
         /\ (bsRecv[i].tag = "Ok" /\ bsRecv[i].val.kind # "Uint8Array")
              => (bsOut[i].tag = "Err" /\ bsOut[i].err.kind = "JsError")
    /\ Cardinality({i \in 1..Len(bsOut) : bsOut[i].tag = "Err"}) <= 1

\* ---------------------------------------------------------------------------
\* Helpers over inner item sequences
AllOk(s) == \A i \in 1..Len(s) : s[i].tag = "Ok"

RECURSIVE SumLen(_)
SumLen(s) == IF s = <<>> THEN 0
             ELSE (IF Head(s).tag = "Ok" THEN Len(Head(s).chunk) ELSE 0) + SumLen(Tail(s))

Cum(s, k) == SumLen(SubSeq(s, 1, k))

\* the Ok chunks of a sequence of yielded values, in order
RECURSIVE OkChunks(_)
OkChunks(s) == IF s = <<>> THEN <<>>
               ELSE (IF Head(s).tag = "Ok" THEN <<Head(s).chunk>> ELSE <<>>) \o OkChunks(Tail(s))

\* the Ok chunks of received whose running total stays within len
RECURSIVE InBoundFrom(_, _, _)
InBoundFrom(s, acc, len) ==
    IF s = <<>> THEN <<>>
    ELSE IF Head(s).tag = "Ok"
         THEN LET n == acc + Len(Head(s).chunk) IN
              (IF n <= len THEN <<Head(s).chunk>> ELSE <<>>) \o InBoundFrom(Tail(s), n, len)
         ELSE InBoundFrom(Tail(s), acc, len)

ExactCase == AllOk(initInner) /\ SumLen(initInner) = length

OverflowAt(k) == /\ k \in 1..Len(initInner)
                 /\ AllOk(SubSeq(initInner, 1, k))
                 /\ Cum(initInner, k) > length
                 /\ Cum(initInner, k - 1) <= length

ShortCase == AllOk(initInner) /\ SumLen(initInner) < length

\* C1: when the Ok chunks sum to exactly the declared length, every pull
\* yields the next chunk unchanged, then end-of-sequence, and never an error.
C1_ExactLength ==
    ExactCase =>
      \A i \in 1..Len(out) :
        out[i] = IF i <= Len(initInner) THEN initInner[i] ELSE NoneItem

C1_Witness == ExactCase /\ Len(initInner) >= 2 /\ Len(out) > Len(initInner)

\* C2 (as stated): on overflow at chunk k, chunks 1..k-1 are yielded, then one
\* RustError(expected L, actual cumulative), and no later pull yields an error.
C2_Original ==
    \A k \in 1..Len(initInner) : OverflowAt(k) =>
      /\ \A i \in 1..(k - 1) : i <= Len(out) => out[i] = initInner[i]
      /\ Len(out) >= k => out[k] = ErrItem(RustError(MismatchMsg(length, Cum(initInner, k))))
      /\ \A j \in (k + 1)..Len(out) : out[j].tag # "Err"

\* C2 (amended): on overflow at chunk k, chunks 1..k-1 are yielded unchanged and
\* the k-th pull yields RustError(expected L, actual cumulative) instead of
\* chunk k; later pulls are not constrained.
C2_Overflow ==
    \A k \in 1..Len(initInner) : OverflowAt(k) =>
      /\ \A i \in 1..(k - 1) : i <= Len(out) => out[i] = initInner[i]
      /\ Len(out) >= k => out[k] = ErrItem(RustError(MismatchMsg(length, Cum(initInner, k))))

C2_Witness == \E k \in 2..Len(initInner) : OverflowAt(k) /\ Len(out) >= k

\* C3 (as stated): when inner ends with total T < L, all chunks are yielded,
\* then one RustError(expected L, actual T), and no later pull yields an error.
C3_Original ==
    ShortCase =>
      /\ \A i \in 1..Len(initInner) : i <= Len(out) => out[i] = initInner[i]
      /\ Len(out) > Len(initInner) =>
           out[Len(initInner) + 1] = ErrItem(RustError(MismatchMsg(length, SumLen(initInner))))
      /\ \A j \in (Len(initInner) + 2)..Len(out) : out[j].tag # "Err"

\* C3 (amended): when inner ends with total T < L, all chunks are yielded
\* unchanged and the next pull yields RustError(expected L, actual T) in place
\* of end-of-sequence; every further pull, with inner again reporting end,
\* yields the same RustError again.
C3_Short ==
    ShortCase =>
      /\ \A i \in 1..Len(initInner) : i <= Len(out) => out[i] = initInner[i]
      /\ \A j \in (Len(initInner) + 1)..Len(out) :
           out[j] = ErrItem(RustError(MismatchMsg(length, SumLen(initInner))))

C3_Witness == ShortCase /\ Len(initInner) >= 1 /\ SumLen(initInner) > 0 /\ Len(out) > Len(initInner) + 1

\* C4: a pull that receives an error from inner returns that exact error and
\* leaves bytes_read unchanged.
C4_ErrorPassThrough ==
    [][(inner # <<>> /\ Head(inner).tag = "Err" /\ Len(out') = Len(out) + 1)
         => (out'[Len(out')] = Head(inner) /\ bytes_read' = bytes_read)]_vars

C4_Witness == Len(out) >= 1 /\ out[Len(out)].tag = "Err" /\ received # <<>>
              /\ received[Len(received)].tag = "Err" /\ bytes_read > 0

\* C7: bytes_read is the sum of the lengths of all Ok chunks received so far,
\* never decreases, and the chunks yielded are the received in-bound chunks
\* in order.
C7_Counter ==
    /\ [](/\ bytes_read = SumLen(received)
          /\ OkChunks(out) = InBoundFrom(received, 0, length))
    /\ [][bytes_read' >= bytes_read]_vars

C7_Witness == Len(received) >= 3 /\ bytes_read > length /\ OkChunks(out) # <<>>
\* ---------------------------------------------------------------------------
\* From<FixedLengthStream> for FixedLengthStreamSys: choice of constructor.
\* A u64 is four 16-bit limbs, most significant first.
LimbBase == 65536
LimbVals == {0, 1, LimbBase - 2, LimbBase - 1}
U64s == [1..4 -> LimbVals]

RECURSIVE LtLimbs(_, _)
LtLimbs(a, b) == IF a = <<>> THEN FALSE
                 ELSE IF Head(a) # Head(b) THEN Head(a) < Head(b)
                 ELSE LtLimbs(Tail(a), Tail(b))

\* u32::MAX as u64
U32Max == <<0, 0, LimbBase - 1, LimbBase - 1>>
FitsU32(a) == a[1] = 0 /\ a[2] = 0

\* if stream.length < u32::MAX as u64 { new(..) } else { new_big_int(..) }
CtorFor(len) == IF LtLimbs(len, U32Max) THEN "new" ELSE "new_big_int"

ConvInit == FlsIdle /\ BsIdle /\ RtIdle /\ ErrIdle
            /\ convLen \in U64s /\ ctor = "none"

Convert == /\ ctor = "none"
           /\ ctor' = CtorFor(convLen)
           /\ UNCHANGED <<convLen, flsVars, bsVars, rtVars, errVars>>

ConvNext == Convert
ConvSpec == ConvInit /\ [][ConvNext]_vars

\* C8: the standard constructor is used exactly for the lengths
\* representable as u32, the big-integer one for all others.
C8_Original == ctor # "none" => (ctor = "new" <=> FitsU32(convLen))


\* ---------------------------------------------------------------------------
\* Round trip: FixedLengthStream -> FixedLengthStreamSys -> ByteStream.
\* The js_stream of the conversion polls the wrapper (PollNext), maps each
\* chunk to a fresh Uint8Array copy and each error to JsValue::from(err);
\* pipe_to writes into the host FixedLengthStream, whose readable side hands
\* the chunks on in order, closes on close, and on abort is errored with the
\* reason (queued chunks discarded).

Zeros(n) == [i \in 1..n |-> 0]
\* Uint8Array::new_with_length(chunk.len()) then array.copy_from(&chunk)
CopyFrom(arr, c) == [i \in 1..Len(arr) |-> c[i]]
ToUint8ArrayShort(c) == CopyFrom(Zeros(IF Len(c) > 0 THEN Len(c) - 1 ELSE 0), c)
ToUint8Array(c) == CopyFrom(Zeros(Len(c)), c)

\* From<Error> for JsValue
JsValueFromError(e) == Display(e)

RtInit == FlsIdle /\ BsIdle /\ ConvIdle /\ ErrIdle
          /\ rtLen \in 0..MaxLen
          /\ rtInit \in SeqsUpTo(InnerItems, MaxItems)
          /\ rtInner = rtInit /\ rtBr = 0
          /\ pipeState = "piping" /\ readable = <<>> /\ rtRead = <<>>
          /\ rtFlsErr = "none"

\* one chunk moved by pipe_to from js_stream into the host writable
PipeStep ==
    /\ pipeState = "piping"
    /\ LET item == IF rtInner = <<>> THEN NoneItem ELSE Head(rtInner)
           r == PollNext(rtLen, rtBr, item)
       IN /\ rtBr' = r.br
          /\ rtInner' = IF rtInner = <<>> THEN <<>> ELSE Tail(rtInner)
          /\ CASE r.out.tag = "Ok" ->
                    /\ readable' = Append(readable, HostBytes(ToUint8Array(r.out.chunk)))
                    /\ UNCHANGED <<pipeState, rtFlsErr>>
               [] r.out.tag = "Err" ->
                    /\ readable' = <<HostErr(JsValueFromError(r.out.err))>>
                    /\ pipeState' = "errored"
                    /\ rtFlsErr' = JsValueFromError(r.out.err)
               [] r.out.tag = "None" ->
                    /\ readable' = Append(readable, HostEnd)
                    /\ pipeState' = "closed"
                    /\ UNCHANGED rtFlsErr
    /\ UNCHANGED <<rtLen, rtInit, rtRead, flsVars, bsVars, convVars, errVars>>

\* the reader has seen end-of-sequence or an error
RtReadDone == rtRead # <<>> /\ rtRead[Len(rtRead)].tag \in {"None", "Err"}

\* one ByteStream::poll_next on the readable side; it waits while nothing
\* is queued and the readable side is still open.
ReadStep ==
    /\ readable # <<>>
    /\ ~RtReadDone
    /\ LET r == Head(readable) IN
       /\ \E o \in BsPollOutcomes(r) : rtRead' = Append(rtRead, o)
       /\ readable' = IF r.tag = "Ok" THEN Tail(readable) ELSE readable
    /\ UNCHANGED <<rtLen, rtInit, rtInner, rtBr, pipeState, rtFlsErr,
                   flsVars, bsVars, convVars, errVars>>

RtNext == PipeStep \/ ReadStep
RtSpec == RtInit /\ [][RtNext]_vars

RECURSIVE Flatten(_)
Flatten(cs) == IF cs = <<>> THEN <<>> ELSE Head(cs) \o Flatten(Tail(cs))


\* C9: when the wrapped content has total length L, reading the host handle
\* back through a ByteStream yields exactly the content's bytes and then end;
\* an error of the wrapper reaches the reader as a host error.
C9_RoundTrip ==
    /\ (RtReadDone /\ AllOk(rtInit) /\ SumLen(rtInit) = rtLen)
         => (/\ rtRead[Len(rtRead)] = NoneItem
             /\ Flatten(OkChunks(rtRead)) = Flatten(OkChunks(rtInit)))
    /\ \A i \in 1..Len(rtRead) :
         rtRead[i].tag = "Err" => rtRead[i].err = JsError(rtFlsErr)

C9_Witness == RtReadDone /\ AllOk(rtInit) /\ SumLen(rtInit) = rtLen /\ rtLen >= 2
              /\ Len(rtInit) >= 2

\* ---------------------------------------------------------------------------
\* Rendering of Error values (Display, From<Error> for JsValue)
ErrMessages == {"", "x", "ab", "z", AbortedMsg}
StatusCodes == {0, 200, 65535}
UnitKinds == {"BadEncoding", "BodyUsed", "RouteNoDataError"}
MsgKinds == {"JsError", "BindingError", "RouteInsertError", "RustError",
             "SerdeJsonError", "SerdeWasmBindgenError", "KvError", "UrlParseError"}
AllErrors == {ErrorOf(k, "", 0) : k \in UnitKinds}
             \cup {ErrorOf(k, m, 0) : k \in MsgKinds, m \in ErrMessages}
             \cup {ErrorOf("Json", m, c) : m \in ErrMessages, c \in StatusCodes}
             \cup {ErrorOf("InvalidStatusCode", "", c) : c \in StatusCodes}

ErrInit == FlsIdle /\ BsIdle /\ ConvIdle /\ RtIdle
           /\ errVal \in AllErrors /\ rendered = "" /\ jsRendered = ""
           /\ renderDone = FALSE

Render == /\ ~renderDone
          /\ rendered' = Display(errVal)
          /\ jsRendered' = JsValueFromError(errVal)
          /\ renderDone' = TRUE
          /\ UNCHANGED <<errVal, flsVars, bsVars, convVars, rtVars>>

ErrNext == Render
ErrSpec == ErrInit /\ [][ErrNext]_vars

Contains(s, t) == \E i \in 1..(Len(s) - Len(t) + 1) : SubSeq(s, i, i + Len(t) - 1) = t

\* the context strings an Error value carries
ContextOf(e) ==
    CASE e.kind \in UnitKinds -> {}
      [] e.kind = "Json" -> {e.msg, ToString(e.code)}
      [] e.kind = "InvalidStatusCode" -> {ToString(e.code)}
      [] OTHER -> {e.msg}

\* C10: every Error renders (Display and JsValue) to a non-empty string, the
\* same for both, which contains the variant's context values.
C10_Rendering ==
    renderDone =>
      /\ Len(rendered) > 0
      /\ jsRendered = rendered
      /\ \A t \in ContextOf(errVal) : t = "" \/ Contains(rendered, t)

C10_Witness == renderDone /\ errVal.kind = "Json" /\ errVal.msg = "ab" /\ errVal.code = 200
====
